---- MODULE Spec2Model ----
(***************************************************************************)
(* A model of pkg/util/tracing/tracer.go: the Tracer (StartSpan), the      *)
(* text-map propagation codec (Inject / Extract), the lightstep            *)
(* configuration cell and the context helpers.                             *)
(*                                                                         *)
(* Strings are sequences of one-character strings, so that ToLower,        *)
(* HasPrefix, TrimPrefix, FormatUint and ParseUint are computed character  *)
(* by character.  A uint64 is the sequence of its hexadecimal digit values *)
(* (most significant first, no leading zero; zero is the empty sequence),  *)
(* which keeps the full 64-bit width.  Go maps are functions; a missing    *)
(* key reads as the empty string.                                          *)
(***************************************************************************)
EXTENDS Integers, Sequences, FiniteSets, TLC

\* ------------------------------------------------------------------ strings

UpperChars == <<"A","B","C","D","E","F","G","H","I","J","K","L","M",
                "N","O","P","Q","R","S","T","U","V","W","X","Y","Z">>
LowerChars == <<"a","b","c","d","e","f","g","h","i","j","k","l","m",
                "n","o","p","q","r","s","t","u","v","w","x","y","z">>

\* the lower-case letter of every upper-case letter
LowerOf == [c \in {UpperChars[i] : i \in DOMAIN UpperChars} |->
               LowerChars[CHOOSE i \in DOMAIN UpperChars : UpperChars[i] = c]]

\* unicode.ToLower on one (ASCII) character
ToLowerChar(c) == IF c \in DOMAIN LowerOf THEN LowerOf[c] ELSE c

\* strings.ToLower
ToLower(s) == [i \in 1..Len(s) |-> ToLowerChar(s[i])]

\* strings.HasPrefix
HasPrefix(s, p) == Len(s) >= Len(p) /\ SubSeq(s, 1, Len(p)) = p

\* strings.TrimPrefix
TrimPrefix(s, p) == IF HasPrefix(s, p) THEN SubSeq(s, Len(p) + 1, Len(s)) ELSE s

\* ---------------------------------------------------------------- constants

\* const Snowball = "sb"
Snowball == <<"s","b">>

prefixTracerState == <<"o","t","-","t","r","a","c","e","r","-">>
prefixBaggage == <<"o","t","-","b","a","g","g","a","g","e","-">>
fieldNameTraceID == prefixTracerState \o <<"t","r","a","c","e","i","d">>
fieldNameSpanID == prefixTracerState \o <<"s","p","a","n","i","d">>
fieldNameSampled == prefixTracerState \o <<"s","a","m","p","l","e","d">>

StrTrue == <<"t","r","u","e">>

\* ------------------------------------------------------------------ uint64

\* the number of hexadecimal digits of a 64-bit unsigned integer
UintDigits == 16

HexChars == <<"0","1","2","3","4","5","6","7","8","9","a","b","c","d","e","f">>

Zero == <<>>
MaxUint64 == [i \in 1..UintDigits |-> 15]

\* the value of every hexadecimal digit
HexValOf == [c \in {HexChars[i] : i \in DOMAIN HexChars} |->
                (CHOOSE i \in DOMAIN HexChars : HexChars[i] = c) - 1]

IsHexChar(c) == ToLowerChar(c) \in DOMAIN HexValOf
HexVal(c) == HexValOf[ToLowerChar(c)]

RECURSIVE StripZeros(_)
StripZeros(d) == IF d # <<>> /\ Head(d) = 0 THEN StripZeros(Tail(d)) ELSE d

\* strconv.FormatUint(n, 16)
FormatUint(n) == IF n = Zero THEN <<"0">> ELSE [i \in 1..Len(n) |-> HexChars[n[i] + 1]]

\* strconv.ParseUint(v, 16, 64): the value returned and whether err != nil.
\* A syntax error returns 0, a range error returns the largest uint64.
ParseUint(v) ==
    IF v = <<>> \/ \E i \in 1..Len(v) : ~IsHexChar(v[i])
    THEN [val |-> Zero, err |-> TRUE]
    ELSE LET d == StripZeros([i \in 1..Len(v) |-> HexVal(v[i])])
         IN IF Len(d) > UintDigits
            THEN [val |-> MaxUint64, err |-> TRUE]
            ELSE [val |-> d, err |-> FALSE]

\* -------------------------------------------------------------------- maps

EmptyMap == <<>>

\* m[k] of a Go map[string]string
Get(m, k) == IF k \in DOMAIN m THEN m[k] ELSE <<>>

\* m[k] = v
Put(m, k, v) == [x \in (DOMAIN m) \cup {k} |-> IF x = k THEN v ELSE m[x]]

\* every order in which a range / ForeachKey over the map may visit its keys
RECURSIVE Orders(_)
Orders(S) ==
    IF S = {} THEN {<<>>}
    ELSE UNION {{<<k>> \o o : o \in Orders(S \ {k})} : k \in S}

\* ---------------------------------------------------------------- contexts

NoErr == "nil"
ErrUnsupportedFormat == "ErrUnsupportedFormat"
ErrInvalidCarrier == "ErrInvalidCarrier"
ErrInvalidSpanContext == "ErrInvalidSpanContext"
ErrSpanContextCorrupted == "ErrSpanContextCorrupted"
ErrSpanContextNotFound == "ErrSpanContextNotFound"

NoRecording == "NoRecording"
SnowballRecording == "SnowballRecording"

\* a nil lightstep context / span
NoLightstep == [present |-> FALSE, TraceID |-> Zero, SpanID |-> Zero]
LightstepCtx(t, s) == [present |-> TRUE, TraceID |-> t, SpanID |-> s]

\* The values of the interface opentracing.SpanContext:
\*   kind "nil"   a nil interface value
\*   kind "noop"  noopSpanContext{}
\*   kind "span"  *spanContext
\*   kind "other" a SpanContext of some other tracer
Ctx(kind, t, s, b, g, rt, ls) ==
    [kind |-> kind, TraceID |-> t, SpanID |-> s, Baggage |-> b,
     recordingGroup |-> g, recordingType |-> rt, lightstep |-> ls]

NilCtx == Ctx("nil", Zero, Zero, EmptyMap, 0, NoRecording, NoLightstep)
noopSpanContext == Ctx("noop", Zero, Zero, EmptyMap, 0, NoRecording, NoLightstep)
OtherCtx == Ctx("other", Zero, Zero, EmptyMap, 0, NoRecording, NoLightstep)

\* ------------------------------------------------------------------ Inject

FormatTextMap == "TextMap"
FormatHTTPHeaders == "HTTPHeaders"
FormatBinary == "Binary"

\* A carrier is [kind, m]: kind "TextMap" is an opentracing.TextMapCarrier
\* (a map[string]string, both TextMapWriter and TextMapReader), kind
\* "Invalid" is a value that is neither.
TextMapCarrier(m) == [kind |-> "TextMap", m |-> m]
InvalidCarrier == [kind |-> "Invalid", m |-> EmptyMap]

\* InjectBaggage writing the baggage keys without the prefix
RECURSIVE InjectBaggageNoPrefix(_, _, _)
InjectBaggageNoPrefix(m, bag, keys) ==
    IF keys = {} THEN m
    ELSE LET k == CHOOSE x \in keys : TRUE
         IN InjectBaggageNoPrefix(Put(m, k, bag[k]), bag, keys \ {k})

\* for k, v := range sc.Baggage { mapWriter.Set(prefixBaggage+k, v) }
RECURSIVE InjectBaggage(_, _, _)
InjectBaggage(m, bag, keys) ==
    IF keys = {} THEN m
    ELSE LET k == CHOOSE x \in keys : TRUE
         IN InjectBaggage(Put(m, prefixBaggage \o k, bag[k]), bag, keys \ {k})

\* Inject looking at the carrier before the format
InjectCarrierFirst(osc, format, carrier) ==
    IF osc.kind = "noop" THEN [err |-> NoErr, carrier |-> carrier]
    ELSE IF carrier.kind # "TextMap"
    THEN [err |-> ErrInvalidCarrier, carrier |-> carrier]
    ELSE IF format # FormatHTTPHeaders /\ format # FormatTextMap
    THEN [err |-> ErrUnsupportedFormat, carrier |-> carrier]
    ELSE IF osc.kind # "span"
    THEN [err |-> ErrInvalidSpanContext, carrier |-> carrier]
    ELSE LET m1 == Put(carrier.m, fieldNameTraceID, FormatUint(osc.TraceID))
             m2 == Put(m1, fieldNameSpanID, FormatUint(osc.SpanID))
             m3 == Put(m2, fieldNameSampled, StrTrue)
         IN [err |-> NoErr,
             carrier |-> TextMapCarrier(InjectBaggage(m3, osc.Baggage, DOMAIN osc.Baggage))]

\* Inject writing the sampled entry before it looks at the type of the context
InjectSampledFirst(osc, format, carrier) ==
    IF osc.kind = "noop" THEN [err |-> NoErr, carrier |-> carrier]
    ELSE IF format # FormatHTTPHeaders /\ format # FormatTextMap
    THEN [err |-> ErrUnsupportedFormat, carrier |-> carrier]
    ELSE IF carrier.kind # "TextMap"
    THEN [err |-> ErrInvalidCarrier, carrier |-> carrier]
    ELSE IF osc.kind # "span"
    THEN [err |-> ErrInvalidSpanContext,
          carrier |-> TextMapCarrier(Put(carrier.m, fieldNameSampled, StrTrue))]
    ELSE LET m1 == Put(carrier.m, fieldNameTraceID, FormatUint(osc.TraceID))
             m2 == Put(m1, fieldNameSpanID, FormatUint(osc.SpanID))
             m3 == Put(m2, fieldNameSampled, StrTrue)
         IN [err |-> NoErr,
             carrier |-> TextMapCarrier(InjectBaggage(m3, osc.Baggage, DOMAIN osc.Baggage))]

\* Tracer.Inject: the error returned and the carrier afterwards
Inject(osc, format, carrier) ==
    IF osc.kind = "noop" THEN [err |-> NoErr, carrier |-> carrier]
    ELSE IF format # FormatHTTPHeaders /\ format # FormatTextMap
    THEN [err |-> ErrUnsupportedFormat, carrier |-> carrier]
    ELSE IF carrier.kind # "TextMap"
    THEN [err |-> ErrInvalidCarrier, carrier |-> carrier]
    ELSE IF osc.kind # "span"
    THEN [err |-> ErrInvalidSpanContext, carrier |-> carrier]
    ELSE LET m1 == Put(carrier.m, fieldNameTraceID, FormatUint(osc.TraceID))
             m2 == Put(m1, fieldNameSpanID, FormatUint(osc.SpanID))
             m3 == Put(m2, fieldNameSampled, StrTrue)
         IN [err |-> NoErr,
             carrier |-> TextMapCarrier(InjectBaggage(m3, osc.Baggage, DOMAIN osc.Baggage))]

\* ----------------------------------------------------------------- Extract

\* the var sc spanContext of Extract: zero IDs, nil baggage, nil lightstep
ZeroSC == [TraceID |-> Zero, SpanID |-> Zero, Baggage |-> EmptyMap]

\* ExtractKey taking a span ID that does not parse for zero
ExtractKeyLenient(sc, k0, v) ==
    LET k == ToLower(k0)
    IN IF k = fieldNameTraceID
       THEN LET p == ParseUint(v)
            IN [sc |-> [sc EXCEPT !.TraceID = p.val],
                err |-> IF p.err THEN ErrSpanContextCorrupted ELSE NoErr]
       ELSE IF k = fieldNameSpanID
       THEN [sc |-> [sc EXCEPT !.SpanID = ParseUint(v).val], err |-> NoErr]
       ELSE IF HasPrefix(k, prefixBaggage)
       THEN [sc |-> [sc EXCEPT !.Baggage = Put(sc.Baggage, TrimPrefix(k, prefixBaggage), v)],
             err |-> NoErr]
       ELSE [sc |-> sc, err |-> NoErr]

\* The function Extract hands to ForeachKey: the spanContext after the
\* entry (k, v) and the error returned.
ExtractKey(sc, k0, v) ==
    LET k == ToLower(k0)
    IN IF k = fieldNameTraceID
       THEN LET p == ParseUint(v)
            IN [sc |-> [sc EXCEPT !.TraceID = p.val],
                err |-> IF p.err THEN ErrSpanContextCorrupted ELSE NoErr]
       ELSE IF k = fieldNameSpanID
       THEN LET p == ParseUint(v)
            IN [sc |-> [sc EXCEPT !.SpanID = p.val],
                err |-> IF p.err THEN ErrSpanContextCorrupted ELSE NoErr]
       ELSE IF HasPrefix(k, prefixBaggage)
       THEN [sc |-> [sc EXCEPT !.Baggage = Put(sc.Baggage, TrimPrefix(k, prefixBaggage), v)],
             err |-> NoErr]
       ELSE [sc |-> sc, err |-> NoErr]

\* TextMapCarrier.ForeachKey: visits the entries in the order given and stops
\* at the first error.
RECURSIVE ForeachKey(_, _, _)
ForeachKey(m, order, sc) ==
    IF order = <<>> THEN [sc |-> sc, err |-> NoErr]
    ELSE LET r == ExtractKey(sc, Head(order), m[Head(order)])
         IN IF r.err # NoErr THEN r ELSE ForeachKey(m, Tail(order), r.sc)

\* strconv.ParseBool
BoolStrings == {<<"1">>, <<"t">>, <<"T">>, StrTrue, <<"T","R","U","E">>, <<"T","r","u","e">>,
                <<"0">>, <<"f">>, <<"F">>, <<"f","a","l","s","e">>,
                <<"F","A","L","S","E">>, <<"F","a","l","s","e">>}

\* lightstep's text-map Extract (basictracer/propagation_ot.go, the key schema
\* of lines 44-56): it reads the same carrier in an iteration of its own and
\* wants the three tracer-state fields.
LsState == [TraceID |-> Zero, SpanID |-> Zero, count |-> 0]

LsExtractKey(st, k0, v) ==
    LET k == ToLower(k0)
    IN IF k = fieldNameTraceID
       THEN LET p == ParseUint(v)
            IN [st |-> [st EXCEPT !.TraceID = p.val, !.count = @ + 1],
                err |-> IF p.err THEN ErrSpanContextCorrupted ELSE NoErr]
       ELSE IF k = fieldNameSpanID
       THEN LET p == ParseUint(v)
            IN [st |-> [st EXCEPT !.SpanID = p.val, !.count = @ + 1],
                err |-> IF p.err THEN ErrSpanContextCorrupted ELSE NoErr]
       ELSE IF k = fieldNameSampled
       THEN [st |-> [st EXCEPT !.count = @ + 1],
             err |-> IF v \in BoolStrings THEN NoErr ELSE ErrSpanContextCorrupted]
       ELSE [st |-> st, err |-> NoErr]

RECURSIVE LsForeachKey(_, _, _)
LsForeachKey(m, order, st) ==
    IF order = <<>> THEN [st |-> st, err |-> NoErr]
    ELSE LET r == LsExtractKey(st, Head(order), m[Head(order)])
         IN IF r.err # NoErr THEN r ELSE LsForeachKey(m, Tail(order), r.st)

\* lightstep.Extract(format, carrier): the lightstep context and the error
LightstepExtract(m, order) ==
    LET r == LsForeachKey(m, order, LsState)
    IN IF r.err # NoErr THEN [ctx |-> NoLightstep, err |-> r.err]
       ELSE IF r.st.count = 0 THEN [ctx |-> NoLightstep, err |-> ErrSpanContextNotFound]
       ELSE IF r.st.count < 3 THEN [ctx |-> NoLightstep, err |-> ErrSpanContextCorrupted]
       ELSE [ctx |-> LightstepCtx(r.st.TraceID, r.st.SpanID), err |-> NoErr]

\* ExtractOwn without the return of the noop context for zero IDs
ExtractOwnNoZeroCheck(format, carrier, order) ==
    IF format # FormatHTTPHeaders /\ format # FormatTextMap
    THEN [done |-> TRUE, ctx |-> noopSpanContext, err |-> ErrUnsupportedFormat, sc |-> ZeroSC]
    ELSE IF carrier.kind # "TextMap"
    THEN [done |-> TRUE, ctx |-> noopSpanContext, err |-> ErrInvalidCarrier, sc |-> ZeroSC]
    ELSE LET r == ForeachKey(carrier.m, order, ZeroSC)
         IN IF r.err # NoErr
            THEN [done |-> TRUE, ctx |-> noopSpanContext, err |-> r.err, sc |-> ZeroSC]
            ELSE [done |-> FALSE, ctx |-> noopSpanContext, err |-> NoErr, sc |-> r.sc]

\* Tracer.Extract up to the call of getLightstep: done says that Extract has
\* returned [ctx, err]; otherwise sc is the spanContext read.  order is the
\* order in which ForeachKey visits the entries.
ExtractOwn(format, carrier, order) ==
    IF format # FormatHTTPHeaders /\ format # FormatTextMap
    THEN [done |-> TRUE, ctx |-> noopSpanContext, err |-> ErrUnsupportedFormat, sc |-> ZeroSC]
    ELSE IF carrier.kind # "TextMap"
    THEN [done |-> TRUE, ctx |-> noopSpanContext, err |-> ErrInvalidCarrier, sc |-> ZeroSC]
    ELSE LET r == ForeachKey(carrier.m, order, ZeroSC)
         IN IF r.err # NoErr
            THEN [done |-> TRUE, ctx |-> noopSpanContext, err |-> r.err, sc |-> ZeroSC]
            ELSE IF r.sc.TraceID = Zero /\ r.sc.SpanID = Zero
            THEN [done |-> TRUE, ctx |-> noopSpanContext, err |-> NoErr, sc |-> ZeroSC]
            ELSE [done |-> FALSE, ctx |-> noopSpanContext, err |-> NoErr, sc |-> r.sc]

\* ExtractEnd returning nil with the error of lightstep
ExtractEndNil(own, lsTr, l) ==
    IF own.done THEN [ctx |-> own.ctx, err |-> own.err]
    ELSE IF lsTr /\ l.err # NoErr THEN [ctx |-> NilCtx, err |-> l.err]
    ELSE [ctx |-> Ctx("span", own.sc.TraceID, own.sc.SpanID, own.sc.Baggage, 0, NoRecording,
                      IF lsTr THEN l.ctx ELSE NoLightstep),
          err |-> NoErr]

\* The end of Tracer.Extract: own is what ExtractOwn left, lsTr says whether
\* getLightstep() is not nil, l is what lightstep.Extract returns.
ExtractEnd(own, lsTr, l) ==
    IF own.done THEN [ctx |-> own.ctx, err |-> own.err]
    ELSE IF lsTr /\ l.err # NoErr THEN [ctx |-> noopSpanContext, err |-> l.err]
    ELSE [ctx |-> Ctx("span", own.sc.TraceID, own.sc.SpanID, own.sc.Baggage, 0, NoRecording,
                      IF lsTr THEN l.ctx ELSE NoLightstep),
          err |-> NoErr]

\* Tracer.Extract: the context and the error returned.  lsOrder is the order
\* of lightstep's iteration over the carrier.
Extract(format, carrier, order, lsTr, lsOrder) ==
    ExtractEnd(ExtractOwn(format, carrier, order), lsTr,
               LightstepExtract(carrier.m, lsOrder))

\* --------------------------------------------------------------- StartSpan

ChildOfRef == "ChildOfRef"
FollowsFromRef == "FollowsFromRef"
\* a SpanReferenceType that is neither of the two
OtherRef == "OtherRef"

\* The StartSpanOptions passed as opts ...opentracing.StartSpanOption
RefOpt(type, ctx) == [o |-> "SpanReference", Type |-> type, ctx |-> ctx, tags |-> EmptyMap]
Recordable == [o |-> "Recordable", Type |-> OtherRef, ctx |-> NilCtx, tags |-> EmptyMap]
TagsOpt(tags) == [o |-> "Tags", Type |-> OtherRef, ctx |-> NilCtx, tags |-> tags]

\* opentracing.ChildOf / opentracing.FollowsFrom
ChildOf(ctx) == RefOpt(ChildOfRef, ctx)
FollowsFrom(ctx) == RefOpt(FollowsFromRef, ctx)

\* The first fast path: a single SpanReference with a noop context.
FastPathNoop(opts) ==
    /\ Len(opts) = 1
    /\ opts[1].o = "SpanReference"
    /\ opts[1].ctx.kind = "noop"

\* The second fast path: no options, no net/trace, no lightstep.
NoOptsNoop(opts, netTr, lsTr) == Len(opts) = 0 /\ ~netTr /\ ~lsTr

\* IsRecordable looking at the first option only
IsRecordableFirst(opts) == Len(opts) > 0 /\ opts[1].o = "Recordable"

\* recordable: whether some option is the recordableOption
IsRecordable(opts) == \E i \in 1..Len(opts) : opts[i].o = "Recordable"

\* sso.References after every option was applied: the references, in order
References(opts) == SelectSeq(opts, LAMBDA o : o.o = "SpanReference")

\* sso.Tags after every option was applied (a later Tags option overwrites)
RECURSIVE SsoTags(_)
SsoTags(opts) ==
    IF opts = <<>> THEN EmptyMap
    ELSE LET rest == SsoTags(Tail(opts))
             t == Head(opts).tags
         IN [k \in (DOMAIN t) \cup (DOMAIN rest) |->
                IF k \in DOMAIN rest THEN rest[k] ELSE t[k]]

\* whether the loop over sso.References skips the reference r
SkipsRef(r) ==
    \/ (r.Type # ChildOfRef /\ r.Type # FollowsFromRef)
    \/ r.ctx.kind = "nil"
    \/ r.ctx.kind = "noop"

\* ResolveParent without the break: the last reference that is not skipped
\* becomes the parent
RECURSIVE ResolveParentLast(_)
ResolveParentLast(refs) ==
    IF refs = <<>>
    THEN [hasParent |-> FALSE, parentType |-> OtherRef, parentCtx |-> NilCtx]
    ELSE LET rest == ResolveParentLast(Tail(refs))
         IN IF rest.hasParent \/ SkipsRef(Head(refs)) THEN rest
            ELSE [hasParent |-> TRUE, parentType |-> Head(refs).Type,
                  parentCtx |-> Head(refs).ctx]

\* The loop over sso.References: the first reference that is not skipped
\* becomes the parent.
RECURSIVE ResolveParent(_)
ResolveParent(refs) ==
    IF refs = <<>>
    THEN [hasParent |-> FALSE, parentType |-> OtherRef, parentCtx |-> NilCtx]
    ELSE IF SkipsRef(Head(refs)) THEN ResolveParent(Tail(refs))
    ELSE [hasParent |-> TRUE, parentType |-> Head(refs).Type, parentCtx |-> Head(refs).ctx]

\* ParentRecording looking at the baggage before the group of the parent
ParentRecordingBaggageFirst(p, newGroup) ==
    IF ~p.hasParent
    THEN [group |-> 0, type |-> NoRecording, created |-> FALSE]
    ELSE IF Get(p.parentCtx.Baggage, Snowball) # <<>>
    THEN [group |-> newGroup, type |-> SnowballRecording, created |-> TRUE]
    ELSE IF p.parentCtx.recordingGroup # 0
    THEN [group |-> p.parentCtx.recordingGroup, type |-> p.parentCtx.recordingType,
          created |-> FALSE]
    ELSE [group |-> 0, type |-> NoRecording, created |-> FALSE]

\* recordingGroup and recordingType as the loop sets them for the parent
\* found: created says that recordingGroup = new(spanGroup), which is newGroup.
ParentRecording(p, newGroup) ==
    IF ~p.hasParent
    THEN [group |-> 0, type |-> NoRecording, created |-> FALSE]
    ELSE IF p.parentCtx.recordingGroup # 0
    THEN [group |-> p.parentCtx.recordingGroup, type |-> p.parentCtx.recordingType,
          created |-> FALSE]
    ELSE IF Get(p.parentCtx.Baggage, Snowball) # <<>>
    THEN [group |-> newGroup, type |-> SnowballRecording, created |-> TRUE]
    ELSE [group |-> 0, type |-> NoRecording, created |-> FALSE]

\* UseLightstep whatever the parent
UseLightstepGlobal(lsTr, p) == lsTr

\* lsTr after "if hasParent && parentCtx.lightstep == nil { lsTr = nil }"
UseLightstep(lsTr, p) ==
    IF p.hasParent /\ ~p.parentCtx.lightstep.present THEN FALSE ELSE lsTr

\* ReturnsNoop without the return
ReturnsNoopNever(recordable, group, lsTr, netTr) == FALSE

\* the last return of the noop span
ReturnsNoop(recordable, group, lsTr, netTr) ==
    ~recordable /\ group = 0 /\ ~lsTr /\ ~netTr

\* SpanIdentity giving every span the identity of a root span
SpanIdentityRoot(lsTr, p, rnd) ==
    IF lsTr
    THEN LET lsCtx == LightstepCtx(rnd.lsTraceID, rnd.lsSpanID)
         IN [lightstep |-> lsCtx, TraceID |-> lsCtx.TraceID, SpanID |-> lsCtx.SpanID,
             panic |-> IF lsCtx.TraceID = Zero \/ lsCtx.SpanID = Zero
                       THEN "lightstep did not inject IDs"
                       ELSE ""]
    ELSE [lightstep |-> NoLightstep, TraceID |-> rnd.traceID, SpanID |-> rnd.spanID,
          panic |-> ""]

\* SpanIdentity allocating a new trace ID for every span of its own
SpanIdentityNewTrace(lsTr, p, rnd) ==
    IF lsTr
    THEN LET lsCtx == IF p.hasParent
                      THEN LightstepCtx(p.parentCtx.lightstep.TraceID, rnd.lsSpanID)
                      ELSE LightstepCtx(rnd.lsTraceID, rnd.lsSpanID)
         IN [lightstep |-> lsCtx, TraceID |-> lsCtx.TraceID, SpanID |-> lsCtx.SpanID,
             panic |-> IF p.hasParent /\ ~p.parentCtx.lightstep.present
                       THEN "lightstep span derived from non-lightstep span"
                       ELSE IF lsCtx.TraceID = Zero \/ lsCtx.SpanID = Zero
                       THEN "lightstep did not inject IDs"
                       ELSE IF p.hasParent /\ lsCtx.TraceID # p.parentCtx.TraceID
                       THEN "TraceID doesn't match between parent and child spans"
                       ELSE ""]
    ELSE [lightstep |-> NoLightstep, TraceID |-> rnd.traceID, SpanID |-> rnd.spanID,
          panic |-> ""]

\* The identity of the new span: rnd.spanID and rnd.traceID are the results
\* of rand.Int63(), rnd.lsTraceID and rnd.lsSpanID the IDs lightstep gives a
\* root span.  A child span of lightstep is in the trace of its parent.
\* panic is "" when StartSpan does not panic here.
SpanIdentity(lsTr, p, rnd) ==
    IF lsTr
    THEN LET lsCtx == IF p.hasParent
                      THEN LightstepCtx(p.parentCtx.lightstep.TraceID, rnd.lsSpanID)
                      ELSE LightstepCtx(rnd.lsTraceID, rnd.lsSpanID)
         IN [lightstep |-> lsCtx, TraceID |-> lsCtx.TraceID, SpanID |-> lsCtx.SpanID,
             panic |-> IF p.hasParent /\ ~p.parentCtx.lightstep.present
                       THEN "lightstep span derived from non-lightstep span"
                       ELSE IF lsCtx.TraceID = Zero \/ lsCtx.SpanID = Zero
                       THEN "lightstep did not inject IDs"
                       ELSE IF p.hasParent /\ lsCtx.TraceID # p.parentCtx.TraceID
                       THEN "TraceID doesn't match between parent and child spans"
                       ELSE ""]
    ELSE [lightstep |-> NoLightstep,
          TraceID |-> IF p.hasParent THEN p.parentCtx.TraceID ELSE rnd.traceID,
          SpanID |-> rnd.spanID,
          panic |-> ""]

\* ParentSpanID taking the trace ID of the parent
ParentSpanIDOfTrace(p) == IF p.hasParent THEN p.parentCtx.TraceID ELSE Zero

\* parentSpanID of the new span
ParentSpanID(p) == IF p.hasParent THEN p.parentCtx.SpanID ELSE Zero

\* CopyBaggage assigning the map of the parent context instead of copying it
CopyBaggageAlias(p) ==
    [m |-> IF p.hasParent THEN p.parentCtx.Baggage ELSE EmptyMap, shared |-> p.hasParent]

\* s.mu.Baggage after the copy from the parent: m is its content; shared says
\* whether it is the map of parentCtx itself (it never is: the entries are
\* copied into a map made for the span, and without entries it stays nil)
CopyBaggage(p) ==
    [m |-> IF p.hasParent THEN p.parentCtx.Baggage ELSE EmptyMap, shared |-> FALSE]

\* span.SetTag for every entry of tags
SetTags(old, tags) ==
    [k \in (DOMAIN old) \cup (DOMAIN tags) |-> IF k \in DOMAIN tags THEN tags[k] ELSE old[k]]

\* The tags of the new span: sso.Tags, then the baggage when net/trace or
\* lightstep is in use.
InitialTags(opts, baggage, netTr, lsTr) ==
    LET t == SetTags(EmptyMap, SsoTags(opts))
    IN IF netTr \/ lsTr THEN SetTags(t, baggage) ELSE t

\* s.enableRecording(group, type): binds the span to the group
enableRecording(sp, group, type) ==
    [sp EXCEPT !.recordingGroup = group, !.recordingType = type]

\* the zero value of a span
NewSpan ==
    [TraceID |-> Zero, SpanID |-> Zero, parentSpanID |-> Zero, Baggage |-> EmptyMap,
     tags |-> EmptyMap, recordingGroup |-> 0, recordingType |-> NoRecording,
     lightstep |-> NoLightstep, netTr |-> FALSE, pc |-> "open", tmp |-> <<>>,
     sharedBaggage |-> FALSE]

NoopResult == [outcome |-> "noop", span |-> NewSpan, created |-> FALSE, panic |-> ""]

\* Tracer.StartSpan.  netTr is enableNetTrace.Get(), lsTr says whether
\* getLightstep() is not nil, rnd are the random draws, newGroup the group a
\* new(spanGroup) would be.  outcome is "noop" (&t.noopSpan is returned),
\* "span" (the new span is returned) or "panic".
StartSpan(opts, netTr, lsTr, rnd, newGroup) ==
    IF FastPathNoop(opts) THEN NoopResult
    ELSE IF NoOptsNoop(opts, netTr, lsTr) THEN NoopResult
    ELSE LET recordable == IsRecordable(opts)
             p == ResolveParent(References(opts))
         IN IF p.hasParent /\ p.parentCtx.kind # "span"
            THEN [NoopResult EXCEPT !.outcome = "panic",
                     !.panic = "interface conversion: not a *spanContext"]
            ELSE LET rec == ParentRecording(p, newGroup)
                     ls == UseLightstep(lsTr, p)
                 IN IF ReturnsNoop(recordable, rec.group, ls, netTr) THEN NoopResult
                    ELSE LET id == SpanIdentity(ls, p, rnd)
                             s1 == [NewSpan EXCEPT !.TraceID = id.TraceID,
                                                   !.SpanID = id.SpanID,
                                                   !.lightstep = id.lightstep]
                             s2 == IF rec.group # 0
                                   THEN enableRecording(s1, rec.group, rec.type)
                                   ELSE s1
                             s3 == [s2 EXCEPT !.netTr = netTr,
                                              !.parentSpanID = ParentSpanID(p),
                                              !.Baggage = CopyBaggage(p).m,
                                              !.sharedBaggage = CopyBaggage(p).shared]
                             s4 == [s3 EXCEPT !.tags =
                                       InitialTags(opts, s3.Baggage, netTr, ls)]
                         IN IF id.panic # ""
                            THEN [NoopResult EXCEPT !.outcome = "panic", !.panic = id.panic]
                            ELSE [outcome |-> "span", span |-> s4,
                                  created |-> rec.created, panic |-> ""]

\* ------------------------------------------------------------------- state

\* the bounds of the model
MaxSpans == 3
MaxOpts == 2
MaxGroups == 1
MaxWireSpans == 2
MaxUpdates == 2

\* the values rand.Int63() and lightstep's ID generator are drawn from
RandIDs == {Zero, <<10>>}
\* the baggage the callers set
BaggageKeys == {Snowball}
BaggageValues == {<<"1">>}
\* the lightstep tokens the setting takes
Tokens == {"", "tok"}

VARIABLES
    netTrace,        \* enableNetTrace.Get()
    lightstepToken,  \* lightstepToken.Get()
    lightstepPtr,    \* the atomic pointer: [present, token]
    spans,           \* the spans allocated so far; the noop span is number 0
    groups,          \* the spanGroups allocated: the records of each
    locks,           \* the lock of each spanGroup: its holder, or 0
    carrier,         \* the carrier between Inject and Extract
    sent,            \* the context Inject wrote into carrier (nil: none)
    extracted,       \* what the last Extract returned: [ctx, err, from]
    call,            \* the last call: its arguments and its result
    updates          \* the calls of updateLightstep in progress, and the
                     \* token the last one to return had read

vars == <<netTrace, lightstepToken, lightstepPtr, spans, groups, locks,
          carrier, sent, extracted, call, updates>>

cfgVars == <<netTrace, lightstepToken, lightstepPtr, updates>>
spanVars == <<spans, groups, locks>>
wireVars == <<carrier, sent, extracted>>

\* &t.noopSpan
NoopSpanId == 0

NilPtr == [present |-> FALSE, token |-> ""]

\* getLightstep() != nil
getLightstep == lightstepPtr.present

\* no call of updateLightstep in progress; the last one had read token
NoUpdates(token) ==
    [proc |-> [p \in 1..MaxUpdates |-> [pc |-> "idle", token |-> ""]], last |-> token]

\* A context.Context, as far as the span it carries goes: has says that
\* opentracing.SpanFromContext(ctx) is not nil, span is that span (the noop
\* span is number 0) and depth counts the contexts it was derived through,
\* so that a derived context is never the context it was derived from.
Background == [has |-> FALSE, span |-> NoopSpanId, depth |-> 0]

\* opentracing.ContextWithSpan(ctx, span)
ContextWithSpan(ctx, i) == [has |-> TRUE, span |-> i, depth |-> ctx.depth + 1]

\* IsNoopSpan(opentracing.SpanFromContext(ctx))
IsNoopSpan(ctx) == ctx.has /\ ctx.span = NoopSpanId

\* no call yet.  A call leaves here its arguments and what it returned:
\* ret is the span StartSpan returned, ctxIn and ctxOut the context.Context
\* passed and returned, started says that StartSpan was called, retHas that
\* the span returned is not nil, finished the spans a call finished, created
\* that StartSpan made a new(spanGroup).
NoCall ==
    [op |-> "", opts |-> <<>>, netTr |-> FALSE, lsTr |-> FALSE, outcome |-> "",
     ret |-> NoopSpanId, span |-> NoopSpanId, ctx |-> NilCtx, err |-> NoErr,
     format |-> "", carrier |-> InvalidCarrier, panic |-> "",
     ctxIn |-> Background, ctxOut |-> Background, started |-> FALSE,
     retHas |-> FALSE, finished |-> {}, created |-> FALSE]

\* once StartSpan panicked the process is gone
Running == call.panic = ""

\* span.Context(): the identity, a copy of the baggage, the lightstep context
\* and, while recording, the group and type
SpanContext(sp) ==
    Ctx("span", sp.TraceID, sp.SpanID, sp.Baggage, sp.recordingGroup,
        sp.recordingType, sp.lightstep)

\* the contexts a caller holds
AvailableCtxs ==
    {NilCtx, noopSpanContext, extracted.ctx} \cup {SpanContext(spans[i]) : i \in 1..Len(spans)}

\* the contexts among them that are a *spanContext
RealCtxs == {c \in AvailableCtxs : c.kind = "span"}

OptTags == [k \in {<<"k">>} |-> <<"v">>]

\* the options a caller passes, and the lists of at most MaxOpts of them
Opts ==
    {Recordable, TagsOpt(OptTags)} \cup {ChildOf(c) : c \in AvailableCtxs}
        \cup {RefOpt(t, c) : t \in {FollowsFromRef, OtherRef}, c \in RealCtxs}
OptLists == UNION {[1..n -> Opts] : n \in 0..MaxOpts}

\* the lists of the common calls: StartSpan(op), StartSpan(op, Recordable),
\* StartSpan(op, ChildOf(ctx)) and StartSpan(op, FollowsFrom(ctx))
CommonOptLists ==
    {<<>>, <<Recordable>>} \cup {<<ChildOf(c)>> : c \in AvailableCtxs \ {NilCtx}}
        \cup {<<FollowsFrom(c)>> : c \in RealCtxs}

Init ==
    /\ netTrace = FALSE
    /\ lightstepToken = ""
    /\ lightstepPtr = NilPtr
    /\ spans = <<>>
    /\ groups = <<>>
    /\ locks = <<>>
    /\ carrier = TextMapCarrier(EmptyMap)
    /\ sent = NilCtx
    /\ extracted = [ctx |-> NilCtx, err |-> NoErr, from |-> NilCtx]
    /\ call = NoCall
    /\ updates = NoUpdates("")

\* ----------------------------------------------------------- configuration

\* the cluster setting trace.debug.enable changes
SetNetTrace(b) ==
    /\ Running
    /\ b # netTrace
    /\ netTrace' = b
    /\ call' = [NoCall EXCEPT !.op = "SetNetTrace"]
    /\ UNCHANGED <<lightstepToken, lightstepPtr, updates, spanVars, wireVars>>

\* updateLightstep storing a tracer for the empty token as well
updateLightstepSentinel(token) == [present |-> TRUE, token |-> token]

\* updateLightstep: the pointer stored for the token read
updateLightstep(token) ==
    IF token = "" THEN NilPtr ELSE [present |-> TRUE, token |-> token]

\* the cluster setting trace.lightstep.token changes and its OnChange
\* callback runs
SetLightstepToken(tok) ==
    /\ Running
    /\ tok # lightstepToken
    /\ lightstepToken' = tok
    /\ lightstepPtr' = updateLightstep(tok)
    /\ updates' = [updates EXCEPT !.last = tok]
    /\ call' = [NoCall EXCEPT !.op = "SetLightstepToken"]
    /\ UNCHANGED <<netTrace, spanVars, wireVars>>

\* The same, step by step, with other calls in between.  The setting
\* changes and its OnChange callback is called, as the call p ...
TokenChange(tok, p) ==
    /\ Running
    /\ tok # lightstepToken
    /\ updates.proc[p].pc = "idle"
    /\ lightstepToken' = tok
    /\ updates' = [updates EXCEPT !.proc[p].pc = "called"]
    /\ call' = [NoCall EXCEPT !.op = "TokenChange"]
    /\ UNCHANGED <<netTrace, lightstepPtr, spanVars, wireVars>>

\* ... updateLightstep reads the token: token := lightstepToken.Get() ...
UpdateRead(p) ==
    /\ Running
    /\ updates.proc[p].pc = "called"
    /\ updates' = [updates EXCEPT !.proc[p] = [pc |-> "read", token |-> lightstepToken]]
    /\ call' = [NoCall EXCEPT !.op = "updateLightstep"]
    /\ UNCHANGED <<netTrace, lightstepToken, lightstepPtr, spanVars, wireVars>>

\* ... and stores nil, or the tracer it made for the token, and returns
UpdateStore(p) ==
    /\ Running
    /\ updates.proc[p].pc = "read"
    /\ lightstepPtr' = updateLightstep(updates.proc[p].token)
    /\ updates' = [updates EXCEPT !.proc[p] = [pc |-> "idle", token |-> ""],
                                  !.last = updates.proc[p].token]
    /\ call' = [NoCall EXCEPT !.op = "updateLightstep"]
    /\ UNCHANGED <<netTrace, lightstepToken, spanVars, wireVars>>

\* ------------------------------------------------------------------- spans

\* Tracer.StartSpan(operationName, opts...) returns r
DoStartSpan(opts, r) ==
    /\ Running
    /\ Len(spans) < MaxSpans
    /\ LET c == [NoCall EXCEPT !.op = "StartSpan", !.opts = opts, !.netTr = netTrace,
                               !.lsTr = getLightstep, !.outcome = r.outcome,
                               !.panic = r.panic]
       IN IF r.outcome = "span"
          THEN /\ spans' = Append(spans, r.span)
               /\ groups' = IF r.created THEN Append(groups, <<>>) ELSE groups
               /\ locks' = IF r.created THEN Append(locks, 0) ELSE locks
               /\ call' = [c EXCEPT !.ret = Len(spans) + 1, !.created = r.created]
          ELSE /\ call' = c
               /\ UNCHANGED spanVars
    /\ UNCHANGED <<cfgVars, wireVars>>

\* the spans whose s.mu.Baggage is the map that the span i writes to: the
\* span itself and, when its map is that of the context it was started from,
\* the spans started from that context whose map it is too
SameBaggageMap(i) ==
    {i} \cup {j \in 1..Len(spans) :
                /\ spans[i].sharedBaggage
                /\ spans[j].sharedBaggage
                /\ spans[j].TraceID = spans[i].TraceID
                /\ spans[j].parentSpanID = spans[i].parentSpanID}

\* span.SetBaggageItem(k, v)
SetBaggageItem(i, k, v) ==
    /\ Running
    /\ spans[i].pc = "open"
    /\ Get(spans[i].Baggage, k) # v
    /\ spans' = [j \in 1..Len(spans) |->
                    IF j \in SameBaggageMap(i)
                    THEN [spans[j] EXCEPT !.Baggage = Put(@, k, v)]
                    ELSE spans[j]]
    /\ call' = [NoCall EXCEPT !.op = "SetBaggageItem", !.span = i]
    /\ UNCHANGED <<cfgVars, groups, locks, wireVars>>

\* StartRecording(span, recType): a new group, bound by enableRecording
StartRecording(i, type) ==
    /\ Running
    /\ spans[i].pc = "open"
    /\ Len(groups) < MaxGroups
    /\ spans' = [spans EXCEPT ![i] = enableRecording(@, Len(groups) + 1, type)]
    /\ groups' = Append(groups, <<>>)
    /\ locks' = Append(locks, 0)
    /\ call' = [NoCall EXCEPT !.op = "StartRecording"]
    /\ UNCHANGED <<cfgVars, wireVars>>

\* the snapshot of a span that Finish appends to its group
Record(i) ==
    [span |-> i, TraceID |-> spans[i].TraceID, SpanID |-> spans[i].SpanID,
     parentSpanID |-> spans[i].parentSpanID]

\* MayLock without mutual exclusion
MayLockAlways(i) == TRUE

\* whether the span may take the lock of its group
MayLock(i) == locks[spans[i].recordingGroup] = 0

\* span.Finish(), first step: a span bound to no group is done; a span bound
\* to a group takes the lock of the group
FinishLock(i) ==
    /\ Running
    /\ spans[i].pc = "open"
    /\ IF spans[i].recordingGroup = 0
       THEN /\ spans' = [spans EXCEPT ![i].pc = "done"]
            /\ UNCHANGED locks
       ELSE /\ MayLock(i)
            /\ spans' = [spans EXCEPT ![i].pc = "locked"]
            /\ locks' = [locks EXCEPT ![spans[i].recordingGroup] = i]
    /\ call' = [NoCall EXCEPT !.op = "Finish"]
    /\ UNCHANGED <<cfgVars, groups, wireVars>>

\* span.Finish(), the append: the record list is read ...
FinishRead(i) ==
    /\ Running
    /\ spans[i].pc = "locked"
    /\ spans' = [spans EXCEPT ![i].pc = "read", ![i].tmp = groups[spans[i].recordingGroup]]
    /\ call' = [NoCall EXCEPT !.op = "Finish"]
    /\ UNCHANGED <<cfgVars, groups, locks, wireVars>>

\* ... and written back with the record appended, and the lock is released
FinishWrite(i) ==
    /\ Running
    /\ spans[i].pc = "read"
    /\ groups' = [groups EXCEPT ![spans[i].recordingGroup] = Append(spans[i].tmp, Record(i))]
    /\ locks' = [locks EXCEPT ![spans[i].recordingGroup] = 0]
    /\ spans' = [spans EXCEPT ![i].pc = "done", ![i].tmp = <<>>]
    /\ call' = [NoCall EXCEPT !.op = "Finish"]
    /\ UNCHANGED <<cfgVars, wireVars>>

\* -------------------------------------------------------------------- wire

\* Tracer.Inject(osc, format, c); sent remembers the context that went into
\* a fresh text-map carrier
DoInject(osc, format, c) ==
    /\ Running
    /\ LET r == Inject(osc, format, c)
       IN /\ carrier' = r.carrier
          /\ sent' = IF r.err = NoErr /\ c = TextMapCarrier(EmptyMap) THEN osc ELSE NilCtx
          /\ call' = [NoCall EXCEPT !.op = "Inject", !.ctx = osc, !.format = format,
                                    !.carrier = c, !.err = r.err]
    /\ UNCHANGED <<cfgVars, spanVars, extracted>>

\* Tracer.Extract(format, carrier) returns r
DoExtract(format, r) ==
    /\ Running
    /\ extracted' = [ctx |-> r.ctx, err |-> r.err, from |-> sent]
    /\ call' = [NoCall EXCEPT !.op = "Extract", !.ctx = r.ctx, !.format = format,
                              !.carrier = carrier, !.err = r.err, !.lsTr = getLightstep]
    /\ UNCHANGED <<cfgVars, spanVars, carrier, sent>>

\* ------------------------------------------------------------ specification

\* A call of StartSpan draws either its own two IDs or lightstep's two.
Rnd == {[traceID |-> a, spanID |-> b, lsTraceID |-> a, lsSpanID |-> b] :
            a \in RandIDs, b \in RandIDs}

\* the carriers that arrive from other processes
TraceIDUpper == <<"O","T","-","T","R","A","C","E","R","-","T","R","A","C","E","I","D">>
InboundCarriers ==
    {(fieldNameTraceID :> <<"a">>) @@ (fieldNameSpanID :> <<"a">>)
         @@ (fieldNameSampled :> StrTrue) @@ ((prefixBaggage \o Snowball) :> <<"1">>),
     (fieldNameTraceID :> <<"a">>) @@ (TraceIDUpper :> <<"1","b">>)
         @@ (fieldNameSpanID :> <<"a">>)}

\* a carrier arrives from another process
Receive(m) ==
    /\ Running
    /\ carrier # TextMapCarrier(m)
    /\ carrier' = TextMapCarrier(m)
    /\ sent' = NilCtx
    /\ call' = [NoCall EXCEPT !.op = "Receive"]
    /\ UNCHANGED <<cfgVars, spanVars, extracted>>

\* what StartSpan may return for opts: one result for every draw
StartSpanResults(opts) ==
    {StartSpan(opts, netTrace, getLightstep, rnd, Len(groups) + 1) : rnd \in Rnd}

\* what Extract may return: one result for every order in which Extract and
\* lightstep may visit the entries of the carrier
ExtractResults(format) ==
    LET orders == Orders(DOMAIN carrier.m)
        own == {ExtractOwn(format, carrier, order) : order \in orders}
        ls == IF getLightstep /\ \E o \in own : ~o.done
              THEN {LightstepExtract(carrier.m, lsOrder) : lsOrder \in orders}
              ELSE {[ctx |-> NoLightstep, err |-> NoErr]}
    IN {ExtractEnd(o, getLightstep, l) : o \in own, l \in ls}

StartSpanStep(lists) == \E opts \in lists : \E r \in StartSpanResults(opts) : DoStartSpan(opts, r)
ExtractStep(formats) == \E f \in formats : \E r \in ExtractResults(f) : DoExtract(f, r)
InjectStep(ctxs, formats, carriers) ==
    \E osc \in ctxs, f \in formats, c \in carriers : DoInject(osc, f, c)

Next ==
    \/ \E b \in BOOLEAN : SetNetTrace(b)
    \/ \E tok \in Tokens : SetLightstepToken(tok)
    \/ StartSpanStep(CommonOptLists)
    \/ \E i \in 1..Len(spans), k \in BaggageKeys, v \in BaggageValues : SetBaggageItem(i, k, v)
    \/ \E i \in 1..Len(spans) : StartRecording(i, SnowballRecording)
    \/ \E i \in 1..Len(spans) : FinishLock(i)
    \/ \E i \in 1..Len(spans) : FinishRead(i)
    \/ \E i \in 1..Len(spans) : FinishWrite(i)
    \/ InjectStep(RealCtxs, {FormatTextMap}, {TextMapCarrier(EmptyMap)})
    \/ \E m \in InboundCarriers : Receive(m)
    \/ ExtractStep({FormatTextMap})

Spec == Init /\ [][Next]_vars

\* ----------------------------------------------------------------- helpers

\* span.Context() of the span a context.Context carries
ContextOf(i) == IF i = NoopSpanId THEN noopSpanContext ELSE SpanContext(spans[i])

\* the contexts a caller passes: one without a span, one with the noop span,
\* one with each span of the process
AmbientCtxs ==
    {Background} \cup {ContextWithSpan(Background, i) : i \in 0..Len(spans)}

\* what a helper leaves after its call of StartSpan returned r: the span, if
\* one was created, and the context derived for the span returned
HelperStarted(c, opts, r) ==
    LET c1 == [c EXCEPT !.opts = opts, !.netTr = netTrace, !.lsTr = getLightstep,
                        !.outcome = r.outcome, !.panic = r.panic, !.started = TRUE,
                        !.retHas = (r.outcome # "panic")]
    IN IF r.outcome = "span"
       THEN /\ spans' = Append(spans, r.span)
            /\ groups' = IF r.created THEN Append(groups, <<>>) ELSE groups
            /\ locks' = IF r.created THEN Append(locks, 0) ELSE locks
            /\ call' = [c1 EXCEPT !.ret = Len(spans) + 1,
                                  !.ctxOut = ContextWithSpan(c.ctxIn, Len(spans) + 1)]
       ELSE /\ call' = IF r.outcome = "panic" THEN c1
                       ELSE [c1 EXCEPT !.ctxOut = ContextWithSpan(c.ctxIn, NoopSpanId)]
            /\ UNCHANGED spanVars

\* what a helper leaves when it returns the context it was passed, and the
\* span of that context
HelperSame(c) ==
    /\ call' = [c EXCEPT !.ctxOut = c.ctxIn, !.retHas = c.ctxIn.has, !.ret = c.ctxIn.span]
    /\ UNCHANGED spanVars

\* ForkCtxSpan without the return of the context of a noop span
ForkCtxSpanAlways(ctx, r) ==
    /\ Running
    /\ Len(spans) < MaxWireSpans
    /\ LET c == [NoCall EXCEPT !.op = "ForkCtxSpan", !.ctxIn = ctx]
       IN IF ctx.has
          THEN HelperStarted(c, <<FollowsFrom(ContextOf(ctx.span))>>, r)
          ELSE HelperSame(c)
    /\ UNCHANGED <<cfgVars, wireVars>>

\* ForkCtxSpan(ctx, opName); r is what StartSpan returns, if called
ForkCtxSpan(ctx, r) ==
    /\ Running
    /\ Len(spans) < MaxWireSpans
    /\ LET c == [NoCall EXCEPT !.op = "ForkCtxSpan", !.ctxIn = ctx]
       IN IF ctx.has /\ ~IsNoopSpan(ctx)
          THEN HelperStarted(c, <<FollowsFrom(ContextOf(ctx.span))>>, r)
          ELSE HelperSame(c)
    /\ UNCHANGED <<cfgVars, wireVars>>

\* ChildSpan(ctx, opName)
ChildSpan(ctx, r) ==
    /\ Running
    /\ Len(spans) < MaxWireSpans
    /\ LET c == [NoCall EXCEPT !.op = "ChildSpan", !.ctxIn = ctx]
       IN IF ~ctx.has \/ IsNoopSpan(ctx)
          THEN HelperSame(c)
          ELSE HelperStarted(c, <<ChildOf(ContextOf(ctx.span))>>, r)
    /\ UNCHANGED <<cfgVars, wireVars>>

\* EnsureContext starting a span whatever the context carries
EnsureContextAlways(ctx, r) ==
    /\ Running
    /\ Len(spans) < MaxWireSpans
    /\ HelperStarted([NoCall EXCEPT !.op = "EnsureContext", !.ctxIn = ctx], <<>>, r)
    /\ UNCHANGED <<cfgVars, wireVars>>

\* EnsureContext(ctx, tracer, name): the closure returned is sp.Finish of the
\* span started, or func() {}
EnsureContext(ctx, r) ==
    /\ Running
    /\ Len(spans) < MaxWireSpans
    /\ LET c == [NoCall EXCEPT !.op = "EnsureContext", !.ctxIn = ctx]
       IN IF ~ctx.has
          THEN HelperStarted(c, <<>>, r)
          ELSE HelperSame(c)
    /\ UNCHANGED <<cfgVars, wireVars>>

\* The closure EnsureContext returned is called: it is sp.Finish of the span
\* started, or func() {}.  Finish of a span bound to no group ends the span,
\* Finish of the noop span does nothing.
InvokeFinisher ==
    /\ Running
    /\ call.op = "EnsureContext"
    /\ LET i == call.ret
           ends == call.started /\ call.outcome = "span" /\ spans[i].pc = "open"
       IN /\ spans' = IF ends THEN [spans EXCEPT ![i].pc = "done"] ELSE spans
          /\ call' = [call EXCEPT !.op = "finisher", !.finished = IF ends THEN {i} ELSE {}]
    /\ UNCHANGED <<cfgVars, groups, locks, wireVars>>

\* SnowballOpts without the reference to the span of the context
SnowballOptsRoot(ctx) == <<Recordable>>

\* the options StartSnowballTrace passes to StartSpan
SnowballOpts(ctx) ==
    IF ctx.has THEN <<ChildOf(ContextOf(ctx.span)), Recordable>> ELSE <<Recordable>>

\* StartSnowballTrace(ctx, tracer, opName): StartSpan, then
\* StartRecording(span, SnowballRecording), which binds the span to a new
\* group (and cannot record on the noop span)
StartSnowballTrace(ctx, r) ==
    /\ Running
    /\ Len(spans) < MaxWireSpans
    /\ LET opts == SnowballOpts(ctx)
           c == [NoCall EXCEPT !.op = "StartSnowballTrace", !.ctxIn = ctx, !.opts = opts,
                               !.netTr = netTrace, !.lsTr = getLightstep, !.started = TRUE,
                               !.outcome = r.outcome, !.panic = r.panic]
           gs == IF r.created THEN Append(groups, <<>>) ELSE groups
           ls == IF r.created THEN Append(locks, 0) ELSE locks
       IN IF r.outcome = "span"
          THEN /\ spans' = Append(spans, enableRecording(r.span, Len(gs) + 1, SnowballRecording))
               /\ groups' = Append(gs, <<>>)
               /\ locks' = Append(ls, 0)
               /\ call' = [c EXCEPT !.ret = Len(spans) + 1, !.retHas = TRUE,
                                    !.ctxOut = ContextWithSpan(ctx, Len(spans) + 1)]
          ELSE /\ call' = [c EXCEPT !.outcome = "panic",
                              !.panic = IF r.panic # "" THEN r.panic
                                        ELSE "StartRecording called on the noop span"]
               /\ UNCHANGED spanVars
    /\ UNCHANGED <<cfgVars, wireVars>>

\* ---------------------------------------------------- scenario specifications
\* Spec interleaves every operation of the program.  Each specification
\* below takes the operations of one part of the program, from the states
\* named, so that its state space is finite and small.

\* the state after construction, under any configuration already in force
InitConfigured ==
    /\ netTrace \in BOOLEAN
    /\ lightstepToken \in Tokens
    /\ lightstepPtr = updateLightstep(lightstepToken)
    /\ updates = NoUpdates(lightstepToken)
    /\ spans = <<>>
    /\ groups = <<>>
    /\ locks = <<>>
    /\ carrier = TextMapCarrier(EmptyMap)
    /\ sent = NilCtx
    /\ extracted = [ctx |-> NilCtx, err |-> NoErr, from |-> NilCtx]
    /\ call = NoCall

\* Recording: a root span is started forced recordable and children are
\* started from it; the spans are recorded and finished concurrently.
RecordOptLists ==
    IF spans = <<>> THEN {<<Recordable>>} ELSE {<<ChildOf(SpanContext(spans[1]))>>}

NextRecord ==
    \/ StartSpanStep(RecordOptLists)
    \/ \E i \in 1..Len(spans) : StartRecording(i, SnowballRecording)
    \/ \E i \in 1..Len(spans) : FinishLock(i)
    \/ \E i \in 1..Len(spans) : FinishRead(i)
    \/ \E i \in 1..Len(spans) : FinishWrite(i)

SpecRecord == InitConfigured /\ [][NextRecord]_vars

\* Propagation: spans are started, given baggage, their contexts injected
\* and extracted again, and spans started from what was extracted.
NextWire ==
    \/ Len(spans) < MaxWireSpans /\ StartSpanStep(CommonOptLists)
    \/ \E i \in 1..Len(spans), k \in BaggageKeys, v \in BaggageValues : SetBaggageItem(i, k, v)
    \/ InjectStep(RealCtxs, {FormatTextMap}, {TextMapCarrier(EmptyMap)})
    \/ ExtractStep({FormatTextMap})

SpecWire == InitConfigured /\ [][NextWire]_vars

\* StartSpan as a function of the configuration and of its options: the
\* process holds one context to start from, that of a span of its own or
\* one it extracted, and calls StartSpan once.

\* the spans StartSpan(op, Recordable) returns under some configuration
RootSpans ==
    LET rs == {StartSpan(<<Recordable>>, nt, ls, rnd, 1) :
                  nt \in BOOLEAN, ls \in BOOLEAN, rnd \in Rnd}
    IN {r.span : r \in {x \in rs : x.outcome = "span"}}

\* ... after SetBaggageItem and StartRecording, or not
ParentSpans ==
    LET bs == {[sp EXCEPT !.Baggage = b] :
                  sp \in RootSpans,
                  b \in {EmptyMap} \cup {Put(EmptyMap, k, v) : k \in BaggageKeys, v \in BaggageValues}}
    IN bs \cup {enableRecording(sp, 1, SnowballRecording) : sp \in bs}

\* the contexts Extract returns for the carriers that arrive
ExtractedCtxs ==
    {Extract(FormatTextMap, TextMapCarrier(m), order, ls, lsOrder).ctx :
        <<m, order, lsOrder>> \in UNION {{m} \X Orders(DOMAIN m) \X Orders(DOMAIN m) : m \in InboundCarriers},
        ls \in BOOLEAN}

InitStartSpan ==
    /\ netTrace \in BOOLEAN
    /\ lightstepToken \in Tokens
    /\ lightstepPtr = updateLightstep(lightstepToken)
    /\ updates = NoUpdates(lightstepToken)
    /\ \/ /\ spans \in {<<>>} \cup {<<sp>> : sp \in ParentSpans}
          /\ extracted = [ctx |-> NilCtx, err |-> NoErr, from |-> NilCtx]
       \/ /\ spans = <<>>
          /\ extracted \in {[ctx |-> c, err |-> NoErr, from |-> NilCtx] : c \in ExtractedCtxs}
    /\ groups = IF spans # <<>> /\ spans[1].recordingGroup # 0 THEN << <<>> >> ELSE <<>>
    /\ locks = IF spans # <<>> /\ spans[1].recordingGroup # 0 THEN <<0>> ELSE <<>>
    /\ carrier = TextMapCarrier(EmptyMap)
    /\ sent = NilCtx
    /\ call = NoCall

NextStartSpan == call = NoCall /\ StartSpanStep(OptLists)

SpecStartSpan == InitStartSpan /\ [][NextStartSpan]_vars

\* Inject and Extract as functions of the context, the format and the
\* carrier: the process holds one span, or a carrier has arrived, and it
\* calls Inject and then Extract.

\* 7fffffffffffffff, the largest value of rand.Int63()
MaxInt63 == [i \in 1..UintDigits |-> IF i = 1 THEN 7 ELSE 15]

CodecIDs == {Zero, <<10>>, <<1, 11>>, MaxInt63}

KeyUser == <<"U","s","e","r">>
CodecBaggage ==
    {EmptyMap,
     (Snowball :> <<"1">>),
     (KeyUser :> <<"4","2">>),
     (KeyUser :> <<"4","2">>) @@ (ToLower(KeyUser) :> <<"7">>)}

\* the spans whose contexts are injected
CodecSpans ==
    {[NewSpan EXCEPT !.TraceID = t, !.SpanID = sp, !.Baggage = b] :
        t \in CodecIDs, sp \in CodecIDs, b \in CodecBaggage}

\* the carriers that arrive: no entry, an unknown key, baggage only, IDs that
\* are zero, not hexadecimal, too long or in upper case, a trace ID alone,
\* a span ID that is not hexadecimal among good entries, and what another
\* process injected
CodecMaps ==
    {EmptyMap,
     (<<"x">> :> <<"1">>),
     ((prefixBaggage \o Snowball) :> <<"1">>),
     (fieldNameTraceID :> <<"0">>) @@ (fieldNameSpanID :> <<"0">>),
     (fieldNameTraceID :> <<"z","z">>),
     (fieldNameSpanID :> <<>>),
     (fieldNameTraceID :> [i \in 1..(UintDigits + 1) |-> "f"]),
     (TraceIDUpper :> <<"A","B">>) @@ (fieldNameSpanID :> <<"0","1","c">>),
     (fieldNameTraceID :> <<"a">>),
     (TraceIDUpper :> <<"1">>) @@ (fieldNameSpanID :> <<"g">>)
         @@ ((prefixBaggage \o Snowball) :> <<"1">>),
     (fieldNameTraceID :> <<"a">>) @@ (fieldNameSpanID :> <<"b">>)
         @@ (fieldNameSampled :> <<"m","a","y","b","e">>)}
        \cup InboundCarriers
CodecCarriers == {TextMapCarrier(m) : m \in CodecMaps} \cup {InvalidCarrier}

Formats == {FormatTextMap, FormatHTTPHeaders, FormatBinary}

\* a carrier that holds entries already when Inject is called
UsedCarrier == TextMapCarrier((<<"x">> :> <<"1">>) @@ (fieldNameTraceID :> <<"f">>))

InitCodec ==
    /\ netTrace = FALSE
    /\ lightstepToken \in Tokens
    /\ lightstepPtr = updateLightstep(lightstepToken)
    /\ updates = NoUpdates(lightstepToken)
    /\ \/ /\ spans \in {<<sp>> : sp \in CodecSpans}
          /\ carrier = TextMapCarrier(EmptyMap)
       \/ /\ spans = <<>>
          /\ carrier \in CodecCarriers
    /\ groups = <<>>
    /\ locks = <<>>
    /\ sent = NilCtx
    /\ extracted = [ctx |-> NilCtx, err |-> NoErr, from |-> NilCtx]
    /\ call = NoCall

\* one call of Inject, then one of Extract, or one of Extract alone
NextCodec ==
    \/ /\ call = NoCall
       /\ InjectStep(AvailableCtxs \cup {OtherCtx}, Formats,
                     {TextMapCarrier(EmptyMap), InvalidCarrier, UsedCarrier, carrier})
    \/ /\ call.op # "Extract"
       /\ ExtractStep(Formats)

SpecCodec == InitCodec /\ [][NextCodec]_vars

\* ------------------------------------------------------------------ claims

\* the parent the last call of StartSpan resolved
CallParent == ResolveParent(References(call.opts))
\* the last call named a format that Inject and Extract support
SupportedCall == call.format \in {FormatTextMap, FormatHTTPHeaders}
\* the last call of StartSpan returned a span
ReturnedSpan == call.op = "StartSpan" /\ call.outcome = "span"
\* the spans bound to the group g that have finished
DoneIn(g) == {i \in 1..Len(spans) : spans[i].recordingGroup = g /\ spans[i].pc = "done"}
\* the records of the group g are one for each span of DoneIn(g)
OneRecordEach(g) ==
    /\ Len(groups[g]) = Cardinality(DoneIn(g))
    /\ \A i \in DoneIn(g) :
          Cardinality({n \in 1..Len(groups[g]) : groups[g][n].span = i}) = 1

\* C1 (as stated, for contexts with non-zero IDs): a context injected into a
\* fresh text-map carrier and extracted from it comes back with the same
\* trace ID, the same span ID and an equal baggage map.
C1_RoundTrip ==
    (/\ call.op = "Extract"
     /\ SupportedCall
     /\ extracted.from.kind = "span"
     /\ extracted.from.TraceID # Zero
     /\ extracted.from.SpanID # Zero)
    => /\ extracted.ctx.TraceID = extracted.from.TraceID
       /\ extracted.ctx.SpanID = extracted.from.SpanID
       /\ extracted.ctx.Baggage = extracted.from.Baggage

\* C2 (as stated): whatever StartSpan returns for a call with a resolved
\* parent P, the no-op span included, has the trace ID of P and the span ID
\* of P as its parentSpanID.
C2_EverySpan ==
    (call.op = "StartSpan" /\ call.outcome # "panic" /\ CallParent.hasParent)
    => LET S == IF call.outcome = "span" THEN spans[call.ret] ELSE NewSpan
       IN /\ S.TraceID = CallParent.parentCtx.TraceID
          /\ S.parentSpanID = CallParent.parentCtx.SpanID

\* C2 (amended): every real span that StartSpan returns for a call with a
\* resolved parent P has the trace ID of P and the span ID of P as its
\* parentSpanID.
C2_RealSpan ==
    (ReturnedSpan /\ CallParent.hasParent)
    => /\ spans[call.ret].TraceID = CallParent.parentCtx.TraceID
       /\ spans[call.ret].parentSpanID = CallParent.parentCtx.SpanID

\* a lightstep span was started from a parent with non-zero IDs
C2_Witness ==
    /\ ReturnedSpan
    /\ CallParent.hasParent
    /\ CallParent.parentCtx.TraceID # Zero
    /\ CallParent.parentCtx.SpanID # Zero
    /\ spans[call.ret].lightstep.present

\* C3 (as stated): a span started from a context whose baggage has the
\* snowball key, or from the context extracted after such a context was
\* injected, is a real span bound to a group with SnowballRecording, and
\* every group holds one record for each finished span bound to it.
C3_SnowballDescendants ==
    /\ (/\ call.op = "StartSpan"
        /\ call.outcome # "panic"
        /\ \/ CallParent.hasParent /\ Get(CallParent.parentCtx.Baggage, Snowball) # <<>>
           \/ /\ Get(extracted.from.Baggage, Snowball) # <<>>
              /\ call.opts \in {<<ChildOf(extracted.ctx)>>, <<FollowsFrom(extracted.ctx)>>})
       => /\ call.outcome = "span"
          /\ spans[call.ret].recordingGroup # 0
          /\ spans[call.ret].recordingType = SnowballRecording
    /\ \A g \in 1..Len(groups) : OneRecordEach(g)

\* C4: a call of StartSpan with net/trace disabled, no lightstep tracer, no
\* Recordable option and no group inherited or created returns the noop span
\* of the tracer, not a new span.
C4_NoopWhenDisabled ==
    (/\ call.op = "StartSpan"
     /\ ~call.netTr
     /\ ~call.lsTr
     /\ \A i \in 1..Len(call.opts) : call.opts[i] # Recordable
     /\ ParentRecording(CallParent, Len(groups) + 1).group = 0)
    => call.outcome = "noop" /\ call.ret = NoopSpanId

\* such a call, with options and a real parent, returned the noop span
C4_Witness ==
    /\ call.op = "StartSpan"
    /\ ~call.netTr
    /\ ~call.lsTr
    /\ CallParent.hasParent
    /\ CallParent.parentCtx.kind = "span"
    /\ Len(call.opts) = MaxOpts
    /\ call.outcome = "noop"
    /\ call.ret = NoopSpanId

\* C5: Extract returns a context in every outcome: the noop context with
\* every error, and the noop context or a *spanContext without error.
C5_ExtractUsable ==
    call.op = "Extract"
    => /\ extracted.ctx.kind \in {"noop", "span"}
       /\ extracted.err # NoErr => extracted.ctx = noopSpanContext

\* Extract read non-zero IDs and lightstep's Extract failed
C5_Witness ==
    /\ call.op = "Extract"
    /\ call.lsTr
    /\ call.carrier = TextMapCarrier(fieldNameTraceID :> <<"a">>)
    /\ extracted.err = ErrSpanContextCorrupted
    /\ extracted.ctx = noopSpanContext

\* C6 (as stated): Inject of a context whose trace ID and span ID are both
\* zero writes nothing to the carrier and returns no error.
C6_ZeroWritesNothing ==
    (/\ call.op = "Inject"
     /\ SupportedCall
     /\ call.carrier.kind = "TextMap"
     /\ call.ctx.kind \in {"noop", "span"}
     /\ call.ctx.TraceID = Zero
     /\ call.ctx.SpanID = Zero)
    => call.err = NoErr /\ carrier = call.carrier

\* the entries of the carrier m under a trace-ID or span-ID key
IDKeys(m) == {k \in DOMAIN m : ToLower(k) \in {fieldNameTraceID, fieldNameSpanID}}

\* C7 (as stated): Extract from a text-map carrier in which no entry sets a
\* non-zero trace ID or span ID returns the noop context and no error.
C7_NoEntrySetsID ==
    (/\ call.op = "Extract"
     /\ SupportedCall
     /\ call.carrier.kind = "TextMap"
     /\ \A k \in IDKeys(call.carrier.m) : ParseUint(call.carrier.m[k]).val = Zero)
    => extracted.ctx = noopSpanContext /\ extracted.err = NoErr

\* C7 (amended): Extract from a text-map carrier in which every trace-ID and
\* span-ID entry, if there is one, is valid hexadecimal for zero returns the
\* noop context and no error, with or without a lightstep tracer.
C7_NoIDsNoop ==
    (/\ call.op = "Extract"
     /\ SupportedCall
     /\ call.carrier.kind = "TextMap"
     /\ \A k \in IDKeys(call.carrier.m) :
           ParseUint(call.carrier.m[k]) = [val |-> Zero, err |-> FALSE])
    => extracted.ctx = noopSpanContext /\ extracted.err = NoErr

\* with a lightstep tracer, Extract read a carrier that holds baggage only
C7_Witness ==
    /\ call.op = "Extract"
    /\ SupportedCall
    /\ call.lsTr
    /\ call.carrier = TextMapCarrier((prefixBaggage \o Snowball) :> <<"1">>)
    /\ extracted.ctx = noopSpanContext
    /\ extracted.err = NoErr

\* C8: however the finishes of the spans bound to one group interleave, the
\* group holds exactly one record for each span that has finished.
C8_NoLostRecord == \A g \in 1..Len(groups) : OneRecordEach(g)

\* every span of the model is bound to one group and has finished
C8_Witness ==
    \E g \in 1..Len(groups) :
        /\ Cardinality(DoneIn(g)) = MaxSpans
        /\ Len(groups[g]) = MaxSpans

\* the root span and its children are all bound to the group of the root
\* and have all finished
AllRecorded ==
    /\ spans # <<>>
    /\ spans[1].recordingGroup # 0
    /\ \A i \in 1..Len(spans) :
          spans[i].pc = "done" /\ spans[i].recordingGroup = spans[1].recordingGroup

\* C9: after a root span was started Recordable, StartRecording was called on
\* it, k children were started from it and all k+1 spans finished, the group
\* holds k+1 records, one for each span, all with the trace ID of the root,
\* and the record of every child has the span ID of the root as parentSpanID.
C9_RootAndChildren ==
    AllRecorded
    => LET recs == groups[spans[1].recordingGroup]
       IN /\ Len(recs) = Len(spans)
          /\ \A i \in 1..Len(spans) : \E n \in 1..Len(recs) : recs[n].span = i
          /\ \A n \in 1..Len(recs) :
                /\ recs[n].TraceID = spans[1].TraceID
                /\ recs[n].span # 1 => recs[n].parentSpanID = spans[1].SpanID

\* a root and two or more children, with span and trace ID of the root
\* different, have all finished
C9_Witness ==
    /\ AllRecorded
    /\ Len(spans) = MaxSpans
    /\ spans[1].SpanID # spans[1].TraceID

\* C10: a call of StartSpan with the Recordable option among its options
\* that returns, returns a new span and not the noop span.
C10_RecordableReal ==
    (/\ call.op = "StartSpan"
     /\ call.outcome # "panic"
     /\ \E i \in 1..Len(call.opts) : call.opts[i] = Recordable)
    => call.outcome = "span" /\ call.ret \in 1..Len(spans)

\* with everything disabled, Recordable came after a reference to the noop
\* context and a span was returned
C10_Witness ==
    /\ ReturnedSpan
    /\ ~call.netTr
    /\ ~call.lsTr
    /\ call.opts = <<ChildOf(noopSpanContext), Recordable>>

\* The context helpers: spans are started, given baggage and recorded, and
\* the helpers are called with the contexts that carry them.
HelperStep ==
    \E ctx \in AmbientCtxs :
        LET fork == StartSpanResults(<<FollowsFrom(ContextOf(ctx.span))>>)
            child == StartSpanResults(<<ChildOf(ContextOf(ctx.span))>>)
        IN \/ \E r \in fork : ForkCtxSpan(ctx, r)
           \/ \E r \in child : ChildSpan(ctx, r)
           \/ \E r \in StartSpanResults(<<>>) : EnsureContext(ctx, r)
           \/ \E r \in StartSpanResults(SnowballOpts(ctx)) : StartSnowballTrace(ctx, r)

NextHelpers ==
    \/ spans = <<>> /\ StartSpanStep({<<Recordable>>})
    \/ \E k \in BaggageKeys, v \in BaggageValues : Len(spans) = 1 /\ SetBaggageItem(1, k, v)
    \/ Len(spans) = 1 /\ StartRecording(1, SnowballRecording)
    \/ HelperStep
    \/ InvokeFinisher

SpecHelpers == InitConfigured /\ [][NextHelpers]_vars

\* the last call was passed a context that carries a span that is not the
\* noop span
RealAmbient == call.ctxIn.has /\ ~IsNoopSpan(call.ctxIn)

\* C11: whatever the context carries and whatever the configuration, a
\* StartSnowballTrace that returns, returns a new span bound to a group with
\* SnowballRecording, in a context derived for it; when the context carried
\* a real span, the new span is in its trace and has its span ID as
\* parentSpanID.
C11_SnowballTrace ==
    (call.op = "StartSnowballTrace" /\ call.outcome # "panic")
    => /\ call.outcome = "span"
       /\ call.ret \in 1..Len(spans)
       /\ spans[call.ret].recordingGroup # 0
       /\ spans[call.ret].recordingType = SnowballRecording
       /\ call.ctxOut = ContextWithSpan(call.ctxIn, call.ret)
       /\ RealAmbient =>
             /\ spans[call.ret].TraceID = spans[call.ctxIn.span].TraceID
             /\ spans[call.ret].parentSpanID = spans[call.ctxIn.span].SpanID

\* with everything disabled, StartSnowballTrace was passed a context with a
\* real span and returned
C11_Witness ==
    /\ call.op = "StartSnowballTrace"
    /\ call.outcome = "span"
    /\ ~call.netTr
    /\ ~call.lsTr
    /\ RealAmbient
    /\ spans[call.ctxIn.span].SpanID # Zero
    /\ spans[call.ctxIn.span].recordingGroup = 0

\* C16: the context EnsureContext returns carries a span.  Passed a context
\* with a span, it returns that context and starts no span, and the closure
\* it returns finishes no span; otherwise it calls StartSpan with no option,
\* so with no parent, returns a context derived for the span returned, and
\* the closure finishes exactly that span.
C16_EnsureContext ==
    /\ (call.op \in {"EnsureContext", "finisher"} /\ call.outcome # "panic")
       => /\ call.ctxOut.has
          /\ IF call.ctxIn.has
             THEN call.ctxOut = call.ctxIn /\ ~call.started
             ELSE /\ call.started
                  /\ call.opts = <<>>
                  /\ call.ctxOut = ContextWithSpan(call.ctxIn, call.ret)
                  /\ call.outcome = "span" => spans[call.ret].parentSpanID = Zero
    /\ call.op = "finisher"
       => /\ call.ctxIn.has => call.finished = {}
          /\ call.finished \subseteq {call.ret}
          /\ (~call.ctxIn.has /\ call.outcome = "span") => spans[call.ret].pc = "done"

\* the closure finished the root span EnsureContext had started
C16_Witness ==
    /\ call.op = "finisher"
    /\ ~call.ctxIn.has
    /\ call.outcome = "span"
    /\ call.finished = {call.ret}

\* C17: passed a context with no span or with the noop span, ForkCtxSpan and
\* ChildSpan start no span and return the context itself, and no span or the
\* noop span; passed a context with a real span, they call StartSpan with
\* FollowsFrom (ForkCtxSpan) or ChildOf (ChildSpan) of its context and return
\* a context derived for the span returned.
C17_ForkChild ==
    (call.op \in {"ForkCtxSpan", "ChildSpan"} /\ call.outcome # "panic")
    => IF RealAmbient
       THEN /\ call.started
            /\ call.opts = IF call.op = "ForkCtxSpan"
                            THEN <<FollowsFrom(ContextOf(call.ctxIn.span))>>
                            ELSE <<ChildOf(ContextOf(call.ctxIn.span))>>
            /\ call.retHas
            /\ call.ctxOut = ContextWithSpan(call.ctxIn, call.ret)
       ELSE /\ ~call.started
            /\ call.ctxOut = call.ctxIn
            /\ call.retHas = call.ctxIn.has
            /\ call.ret = NoopSpanId

\* ForkCtxSpan was passed the noop span with net/trace enabled
C17_Witness ==
    /\ call.op = "ForkCtxSpan"
    /\ IsNoopSpan(call.ctxIn)
    /\ netTrace
    /\ call.ctxOut = call.ctxIn

\* C12 (as stated): Inject with a format that is neither TextMap nor
\* HTTPHeaders returns ErrUnsupportedFormat, for every context, the noop
\* context included, and every carrier.
C12_EveryContext ==
    (call.op = "Inject" /\ ~SupportedCall) => call.err = ErrUnsupportedFormat

\* C12 (amended): Inject with a format that is neither TextMap nor
\* HTTPHeaders returns ErrUnsupportedFormat for every context but the noop
\* context, and every carrier; for the noop context it returns no error.
C12_NotNoop ==
    (call.op = "Inject" /\ ~SupportedCall)
    => call.err = IF call.ctx.kind = "noop" THEN NoErr ELSE ErrUnsupportedFormat

\* Inject was called with the binary format, a carrier that is no text map
\* and a context of another tracer
C12_Witness ==
    /\ call.op = "Inject"
    /\ call.format = FormatBinary
    /\ call.carrier = InvalidCarrier
    /\ call.ctx = OtherCtx
    /\ call.err = ErrUnsupportedFormat

\* the carrier m holds a trace-ID or span-ID entry that does not parse
CorruptedIDs(m) == \E k \in IDKeys(m) : ParseUint(m[k]).err

\* C13: Extract from a text-map carrier that holds a trace-ID or span-ID key,
\* in any letter case, whose value is not hexadecimal of 64 bits returns
\* ErrSpanContextCorrupted (and the noop context), whatever else the carrier
\* holds and in whatever order it is read.
C13_CorruptedIDs ==
    (/\ call.op = "Extract"
     /\ SupportedCall
     /\ call.carrier.kind = "TextMap"
     /\ CorruptedIDs(call.carrier.m))
    => extracted.err = ErrSpanContextCorrupted /\ extracted.ctx = noopSpanContext

\* Extract read a carrier with a good trace ID, in upper case, baggage and a
\* span ID that is not hexadecimal
C13_Witness ==
    /\ call.op = "Extract"
    /\ SupportedCall
    /\ call.carrier.kind = "TextMap"
    /\ TraceIDUpper \in DOMAIN call.carrier.m
    /\ Cardinality(DOMAIN call.carrier.m) > 2
    /\ CorruptedIDs(call.carrier.m)
    /\ extracted.err = ErrSpanContextCorrupted

\* the string v is n in hexadecimal: lower-case digits, no leading zero
IsHexOf(v, n) ==
    /\ v # <<>>
    /\ \A i \in 1..Len(v) : \E d \in 1..Len(HexChars) : HexChars[d] = v[i]
    /\ Len(v) > 1 => v[1] # "0"
    /\ ParseUint(v) = [val |-> n, err |-> FALSE]

\* the keys Inject writes for the context c
WrittenKeys(c) ==
    {fieldNameTraceID, fieldNameSpanID, fieldNameSampled}
        \cup {prefixBaggage \o k : k \in DOMAIN c.Baggage}

\* C14: Inject of a *spanContext with a supported format into a text-map
\* carrier writes the trace ID and the span ID in hexadecimal under their two
\* keys, "true" under the sampled key and every baggage entry (k, v) as v
\* under the baggage prefix followed by k, and writes nothing else.
C14_InjectEntries ==
    (/\ call.op = "Inject"
     /\ SupportedCall
     /\ call.carrier.kind = "TextMap"
     /\ call.ctx.kind = "span")
    => LET old == call.carrier.m
           new == carrier.m
       IN /\ call.err = NoErr
          /\ DOMAIN new = DOMAIN old \cup WrittenKeys(call.ctx)
          /\ \A k \in DOMAIN old \ WrittenKeys(call.ctx) : new[k] = old[k]
          /\ IsHexOf(new[fieldNameTraceID], call.ctx.TraceID)
          /\ IsHexOf(new[fieldNameSpanID], call.ctx.SpanID)
          /\ new[fieldNameSampled] = <<"t","r","u","e">>
          /\ \A k \in DOMAIN call.ctx.Baggage :
                new[prefixBaggage \o k] = call.ctx.Baggage[k]

\* a context with baggage under a key in upper case and an ID of sixteen
\* digits was injected into a carrier that held entries
C14_Witness ==
    /\ call.op = "Inject"
    /\ call.err = NoErr
    /\ call.ctx.kind = "span"
    /\ call.carrier = UsedCarrier
    /\ call.ctx.TraceID = MaxInt63
    /\ KeyUser \in DOMAIN call.ctx.Baggage

\* Configuration: the token changes and the calls of updateLightstep run
\* step by step, while StartSpan and Extract read the pointer.
NextConfig ==
    \/ \E tok \in Tokens, p \in 1..MaxUpdates : TokenChange(tok, p)
    \/ \E p \in 1..MaxUpdates : UpdateRead(p)
    \/ \E p \in 1..MaxUpdates : UpdateStore(p)
    \/ spans = <<>> /\ StartSpanStep({<<>>})
    \/ \E m \in InboundCarriers : carrier.m = EmptyMap /\ Receive(m)
    \/ ExtractStep({FormatTextMap})

SpecConfig == InitConfigured /\ [][NextConfig]_vars

\* C15: while calls of updateLightstep run step by step among calls of
\* StartSpan and Extract, the pointer is nil or the complete tracer of the
\* last update that returned, never anything else; after an update that read
\* the empty token returned, and until another returns, the pointer is nil
\* and every StartSpan and Extract reads nil.
C15_AtomicHandle ==
    /\ \/ lightstepPtr = NilPtr
       \/ /\ lightstepPtr.present
          /\ lightstepPtr.token # ""
          /\ lightstepPtr.token = updates.last
    /\ updates.last = "" => lightstepPtr = NilPtr
    /\ call.op \in {"StartSpan", "Extract"} => call.lsTr = (updates.last # "")

\* StartSpan read nil after an update that read the empty token returned,
\* while an update that read a token has not stored its tracer yet
C15_Witness ==
    /\ call.op = "StartSpan"
    /\ ~call.lsTr
    /\ updates.last = ""
    /\ \E p \in 1..MaxUpdates :
          updates.proc[p].pc = "read" /\ updates.proc[p].token # ""

\* C18 (as stated, for a span and the span started from it, which are in
\* one trace): whatever the lightstep configuration was when the parent was
\* started and is when StartSpan is called, the new span has a lightstep
\* span if and only if its parent has one.
C18_NoMixedTrace ==
    (ReturnedSpan /\ CallParent.hasParent)
    => spans[call.ret].lightstep.present = CallParent.parentCtx.lightstep.present

\* C19: a span whose resolved parent has no lightstep context gets no
\* lightstep span, whatever getLightstep() returns at the call, and StartSpan
\* never panics with "lightstep span derived from non-lightstep span".
C19_StickyBackend ==
    call.op = "StartSpan"
    => /\ call.panic # "lightstep span derived from non-lightstep span"
       /\ (/\ call.outcome = "span"
           /\ CallParent.hasParent
           /\ ~CallParent.parentCtx.lightstep.present)
          => ~spans[call.ret].lightstep.present

\* with a lightstep tracer configured, a span was started from a parent
\* without lightstep context
C19_Witness ==
    /\ ReturnedSpan
    /\ call.lsTr
    /\ CallParent.hasParent
    /\ ~CallParent.parentCtx.lightstep.present
    /\ ~spans[call.ret].lightstep.present

\* C20: a span started from a parent bound to a group is bound to that
\* group, with the recording type of the parent, and no group is created,
\* baggage or not; from a parent bound to no group whose baggage has the
\* snowball key, it is bound to a new group with SnowballRecording; in
\* every other case no group is created and the span is bound to none.
C20_RecordingInheritance ==
    (call.op = "StartSpan" /\ call.outcome # "panic")
    => LET P == CallParent
       IN IF P.hasParent /\ P.parentCtx.recordingGroup # 0
          THEN /\ call.outcome = "span"
               /\ ~call.created
               /\ spans[call.ret].recordingGroup = P.parentCtx.recordingGroup
               /\ spans[call.ret].recordingType = P.parentCtx.recordingType
          ELSE IF P.hasParent /\ Get(P.parentCtx.Baggage, Snowball) # <<>>
          THEN /\ call.outcome = "span"
               /\ call.created
               /\ spans[call.ret].recordingGroup = Len(groups)
               /\ groups[Len(groups)] = <<>>
               /\ \A i \in 1..Len(spans) :
                     i # call.ret => spans[i].recordingGroup # Len(groups)
               /\ spans[call.ret].recordingType = SnowballRecording
          ELSE /\ ~call.created
               /\ call.outcome = "span" => spans[call.ret].recordingGroup = 0

\* a span was started from a parent that is bound to a group and has the
\* snowball key in its baggage
C20_Witness ==
    /\ ReturnedSpan
    /\ CallParent.hasParent
    /\ CallParent.parentCtx.recordingGroup # 0
    /\ Get(CallParent.parentCtx.Baggage, Snowball) # <<>>
    /\ spans[call.ret].recordingGroup = CallParent.parentCtx.recordingGroup

\* Siblings: the process holds one context, that of a span of its own or one
\* it extracted, starts spans from it and sets baggage items on them.

\* the context the process holds
HeldCtx ==
    IF extracted.ctx.kind # "nil" THEN extracted.ctx
    ELSE IF spans # <<>> THEN SpanContext(spans[1])
    ELSE NilCtx

\* the spans started from it
Started == IF extracted.ctx.kind # "nil" THEN 1..Len(spans) ELSE 2..Len(spans)

NextSiblings ==
    \/ StartSpanStep({<<ChildOf(HeldCtx)>>, <<FollowsFrom(HeldCtx)>>})
    \/ \E i \in Started, k \in BaggageKeys, v \in BaggageValues : SetBaggageItem(i, k, v)

SpecSiblings == InitStartSpan /\ [][NextSiblings]_vars

\* C21: the spans started from one context that has the snowball key in its
\* baggage are all bound to one and the same group.
C21_OneGroup ==
    (HeldCtx.kind = "span" /\ Get(HeldCtx.Baggage, Snowball) # <<>>)
    => \A i, j \in Started :
          /\ spans[i].recordingGroup # 0
          /\ spans[i].recordingGroup = spans[j].recordingGroup

\* C22: the spans bound to one group all have the same trace ID, whether
\* their IDs are those of lightstep spans or results of rand.Int63(), and
\* whether the group was made by StartRecording or by StartSpan.
C22_GroupOneTrace ==
    \A i, j \in 1..Len(spans) :
        (spans[i].recordingGroup # 0 /\ spans[i].recordingGroup = spans[j].recordingGroup)
        => spans[i].TraceID = spans[j].TraceID

\* two spans are bound to one group
SameGroup(i, j) ==
    /\ i # j
    /\ spans[i].recordingGroup # 0
    /\ spans[i].recordingGroup = spans[j].recordingGroup

\* two spans that have lightstep spans are bound to one group, which
\* StartRecording made
C22_Witness ==
    \E i, j \in 1..Len(spans) :
        /\ SameGroup(i, j)
        /\ spans[i].lightstep.present
        /\ spans[j].lightstep.present
        /\ spans[j].parentSpanID = spans[i].SpanID

\* C23: every span StartSpan returns that is not the noop span, and every
\* context Extract returns that is not the noop context, has a trace ID and
\* a span ID that are not zero.
C23_NonZeroIDs ==
    /\ ReturnedSpan
       => spans[call.ret].TraceID # Zero /\ spans[call.ret].SpanID # Zero
    /\ (call.op = "Extract" /\ call.ctx.kind = "span")
       => call.ctx.TraceID # Zero /\ call.ctx.SpanID # Zero

\* References: the process holds the context of a span of its own that is
\* recording and a context it extracted, and calls StartSpan once with a
\* list of references.
InitParent ==
    /\ netTrace \in BOOLEAN
    /\ lightstepToken \in Tokens
    /\ lightstepPtr = updateLightstep(lightstepToken)
    /\ updates = NoUpdates(lightstepToken)
    /\ spans \in {<<enableRecording(sp, 1, SnowballRecording)>> : sp \in RootSpans}
    /\ extracted \in {[ctx |-> c, err |-> NoErr, from |-> NilCtx] : c \in ExtractedCtxs}
    /\ groups = << <<>> >>
    /\ locks = <<0>>
    /\ carrier = TextMapCarrier(EmptyMap)
    /\ sent = NilCtx
    /\ call = NoCall

\* the references a caller passes, and the lists of at most MaxOpts of them
ParentRefs ==
    {ChildOf(noopSpanContext), ChildOf(NilCtx), RefOpt(OtherRef, SpanContext(spans[1])),
     ChildOf(SpanContext(spans[1])), FollowsFrom(extracted.ctx)}
RefLists == UNION {[1..n -> ParentRefs] : n \in 1..MaxOpts}

NextParent == call = NoCall /\ StartSpanStep(RefLists)

SpecParent == InitParent /\ [][NextParent]_vars

\* the references of the last call that are ChildOf or FollowsFrom a context
\* that is neither nil nor the noop context
Matching ==
    {k \in 1..Len(call.opts) :
        /\ call.opts[k].o = "SpanReference"
        /\ call.opts[k].Type \in {ChildOfRef, FollowsFromRef}
        /\ call.opts[k].ctx.kind \notin {"nil", "noop"}}
FirstMatching == CHOOSE k \in Matching : \A n \in Matching : k <= n

\* C24: the span StartSpan returns has the trace ID, the span ID as
\* parentSpanID, the baggage and the recording of the context of the first
\* reference, in order, that is ChildOf or FollowsFrom a context that is
\* neither nil nor the noop context, whatever the other references are; when
\* there is no such reference it has no parent.
C24_FirstReference ==
    ReturnedSpan
    => LET s == spans[call.ret]
       IN IF Matching = {}
          THEN /\ s.parentSpanID = Zero
               /\ s.Baggage = EmptyMap
               /\ s.recordingGroup = 0
          ELSE LET c == call.opts[FirstMatching].ctx
               IN /\ s.TraceID = c.TraceID
                  /\ s.parentSpanID = c.SpanID
                  /\ s.Baggage = c.Baggage
                  /\ c.recordingGroup # 0
                     => /\ s.recordingGroup = c.recordingGroup
                        /\ s.recordingType = c.recordingType
                  /\ c.recordingGroup = 0
                     => call.created = (Get(c.Baggage, Snowball) # <<>>)

\* two references of the last call qualify, the later one to a context
\* with another span ID, another baggage and another recording
C24_Witness ==
    /\ ReturnedSpan
    /\ \E k, n \in Matching :
          /\ k < n
          /\ call.opts[n].ctx.SpanID # call.opts[k].ctx.SpanID
          /\ call.opts[n].ctx.Baggage # call.opts[k].ctx.Baggage
          /\ call.opts[n].ctx.recordingGroup # call.opts[k].ctx.recordingGroup
          /\ spans[call.ret].parentSpanID = call.opts[k].ctx.SpanID

KeysLike(m, k) == {k0 \in DOMAIN m : ToLower(k0) = k}

\* C26: Extract takes the trace ID and the span ID from the keys that are
\* the trace-ID and span-ID keys in any letter case, and for every key of
\* the carrier that has the baggage prefix in any letter case, the baggage
\* has the rest of that key, in the letter case of the carrier, with the
\* value of the carrier.
C26_KeysAsGiven ==
    (/\ call.op = "Extract"
     /\ SupportedCall
     /\ call.carrier.kind = "TextMap"
     /\ call.err = NoErr
     /\ call.ctx.kind = "span")
    => LET m == call.carrier.m
       IN /\ \A k \in KeysLike(m, fieldNameTraceID) :
                Cardinality(KeysLike(m, fieldNameTraceID)) = 1
                => call.ctx.TraceID = ParseUint(m[k]).val
          /\ \A k \in KeysLike(m, fieldNameSpanID) :
                Cardinality(KeysLike(m, fieldNameSpanID)) = 1
                => call.ctx.SpanID = ParseUint(m[k]).val
          /\ \A k \in DOMAIN m :
                HasPrefix(ToLower(k), prefixBaggage)
                => LET rest == SubSeq(k, Len(prefixBaggage) + 1, Len(k))
                   IN /\ rest \in DOMAIN call.ctx.Baggage
                      /\ call.ctx.Baggage[rest] = m[k]

\* C27: when Inject returns an error, the carrier is as it was passed.
C27_ErrorWritesNothing ==
    (call.op = "Inject" /\ call.err # NoErr) => carrier = call.carrier

\* Inject was passed a supported format, a carrier that holds entries and a
\* context that is not a *spanContext, and returned ErrInvalidSpanContext
C27_Witness ==
    /\ call.op = "Inject"
    /\ SupportedCall
    /\ call.carrier = UsedCarrier
    /\ call.err = ErrInvalidSpanContext
    /\ carrier = UsedCarrier

\* C28: what Extract returned for the carrier, context and error, is what it
\* returns for every order in which the entries of that carrier are visited.
C28_OrderIndependent ==
    call.op = "Extract"
    => \A r \in ExtractResults(call.format) : r.ctx = call.ctx /\ r.err = call.err

\* C29: when no call of updateLightstep is running, the pointer is not nil if
\* and only if the token is not empty.
C29_HandleFollowsToken ==
    (\A p \in 1..MaxUpdates : updates.proc[p].pc = "idle")
    => (lightstepPtr.present <=> lightstepToken # "")

====
